---- MODULE Spec2Model ----
(***************************************************************************)
(* Model of scripts/sync_models.py: the reconciliation of a desired-state  *)
(* document (models.json) into the Provider and Model tables.              *)
(*                                                                         *)
(* The datastore is the pair of tables Provider and Model (sets of rows).  *)
(* Every datastore call may raise; the store itself enforces no uniqueness *)
(* constraint (none is declared anywhere in the source).                   *)
(*                                                                         *)
(* Spec is the program as written: main runs the provider/model loop and   *)
(* ends.  archive_removed_entities is defined in the source but called     *)
(* nowhere; SpecSweep adds the call the design describes, after the loop.  *)
(***************************************************************************)
EXTENDS Integers, Sequences, FiniteSets, TLC

\* ------------------------------------------------------------------ bounds
\* Number of times main() is run over the same document in one behaviour.
MaxRuns == 2
\* Number of datastore calls that raise in one behaviour.
MaxFailures == 1

\* ------------------------------------------------------------------ values
\* Python's None for string-valued fields, and for an absent identifier.
None == "None"
NullId == 0

\* date.today(), as a day ordinal (see IsoDay).
Today == 1

ProviderNames == {"openai", "legacy"}
Keys == {"gpt-x", "m-2024-05-13"}

Range(s) == {s[n] : n \in DOMAIN s}

\* dict.get(key, default)
Get(map, key, default) == IF key \in DOMAIN map THEN map[key] ELSE default

\* The subsets of S of at most n elements.
RECURSIVE SubsetsUpTo(_, _)
SubsetsUpTo(S, n) ==
    IF n = 0 THEN {{}}
    ELSE SubsetsUpTo(S, n - 1)
         \cup {T \cup {x} : T \in SubsetsUpTo(S, n - 1), x \in S}

\* The empty dict.
EmptyMap == [k \in {} |-> None]

\* The well-formed ISO date strings of the documents, with their day ordinal;
\* any other string makes datetime.fromisoformat raise ValueError.
IsoDay ==
    ("2026-11-04" :> 0) @@ ("2026-11-05" :> 1) @@ ("2026-11-05T23:59:59" :> 1)
    @@ ("2026-11-06" :> 2)

\* extract_date(model_name).isoformat(): the first YYYY-MM-DD substring of the
\* key, parsed as a datetime; None when the key holds no such substring.
extract_date(model_name) ==
    IF model_name = "m-2024-05-13" THEN "2024-05-13T00:00:00" ELSE None

\* f"{cfg['provider']}/{key}"
FullName(provider, key) == provider \o "/" \o key

\* ------------------------------------------------------------ the document
\* Per-key maps every provider config of the bounded documents carries.
NameMap == ("gpt-x" :> "GPT X")
DescriptionsMap == ("gpt-x" :> "flagship")
ChatAppMap == ("gpt-x" :> "Free") @@ ("m-2024-05-13" :> "Max")
ThePrice == [input |-> 1, output |-> 2]

\* A provider config: the keys it lists, the keys it prices, its
\* depreciationDate and capabilities maps.
MkCfg(icon, models, priced, dep, caps) ==
    [icon |-> icon,
     models |-> models,
     price |-> [k \in priced |-> ThePrice],
     depreciationDate |-> dep,
     capabilities |-> caps,
     name |-> NameMap,
     descriptions |-> DescriptionsMap,
     availableForChatApp |-> ChatAppMap]

\* os.getenv(f"{provider_name.upper()}_API_ENDPOINT", ""): the environment of
\* the runs sets OPENAI_API_ENDPOINT only.
Endpoint(provider_name) ==
    IF provider_name = "openai" THEN "https://api.openai.example" ELSE ""

\* The documents: "openai" first, then optionally "legacy".  "openai" lists
\* no key, one or both and prices any of those it lists; "legacy" lists at
\* most "gpt-x", priced, so that the two providers can share a key.
ModelLists == {<<>>, <<"gpt-x">>, <<"gpt-x", "m-2024-05-13">>}
DepMaps == {EmptyMap, ("gpt-x" :> "2026-11-05")}
CapsMap == ("gpt-x" :> <<"vision", "pdf">>)

OpenaiCfgs ==
    {MkCfg("", ms, pr, dep, CapsMap) :
        ms \in ModelLists, pr \in SUBSET Keys, dep \in DepMaps}
LegacyCfgs ==
    {MkCfg("icon-1", ms, Range(ms), EmptyMap, CapsMap) : ms \in {<<>>, <<"gpt-x">>}}

\* A cfg whose priced keys are among the keys it lists (the others are never
\* read by main).
Tidy(cfg) == DOMAIN cfg.price \subseteq Range(cfg.models)

\* json.load: the document, as the sequence of its (provider, cfg) items.
Documents ==
    {<<[provider |-> "openai", cfg |-> o]>> : o \in {c \in OpenaiCfgs : Tidy(c)}}
    \cup
    {<<[provider |-> "openai", cfg |-> o], [provider |-> "legacy", cfg |-> l]>> :
        o \in {c \in OpenaiCfgs : Tidy(c)}, l \in {c \in LegacyCfgs : Tidy(c)}}

\* args.models: the allow-list of "provider/model" names; empty when omitted.
Filters == {<<>>, <<"openai/gpt-x">>}

\* ------------------------------------------------------------------- state
VARIABLES
    Provider,       \* table Provider: set of rows
    Model,          \* table Model: set of rows
    data,           \* main: the loaded document
    models_filter,  \* main: the allow-list
    pc,             \* main: "idle", "provider" (line 341), "model" (line 348), "done"
    i,              \* main: index of the provider item being processed
    j,              \* main: index of the model key being processed
    pid,            \* main: the id upsert_provider returned for item i
    clock,          \* datetime.utcnow(), one tick per run
    nextId,         \* the next uuid4 not yet drawn
    runs,           \* number of runs of main started
    failures,       \* number of datastore calls that raised
    Provider0,      \* history: table Provider when the run started
    Model0,         \* history: table Model when the run started
    pids,           \* history: what upsert_provider returned, per provider name
    calls,          \* history: the datastore calls issued in this run
    synced,         \* history: the (provider, key) pairs sync_model was called on
    sweeps,         \* history: number of calls of archive_removed_entities in this run
    ProviderOrigin, \* history: table Provider before the first run
    ModelOrigin,    \* history: table Model before the first run
    faulty          \* history: the runs in which a datastore call was made to raise

vars == <<Provider, Model, data, models_filter, pc, i, j, pid, clock, nextId,
          runs, failures, Provider0, Model0, pids, calls, synced, sweeps,
          ProviderOrigin, ModelOrigin, faulty>>

store == <<Provider, Model>>
input == <<data, models_filter>>
position == <<pc, i, j, pid>>
history == <<Provider0, Model0, pids, calls, synced, sweeps>>
origin == <<ProviderOrigin, ModelOrigin>>

\* ------------------------------------------------------------ the datastore
\* Whether .maybe_single().execute() returns for the rows matching the
\* filter: it raises when the call fails, and also when several rows match
\* (the lookup is for at most one row).
Returns(matching, ok) == ok /\ Cardinality(matching) <= 1

\* The value of existing after the lookup, as the set holding the row found:
\* empty for None, which is also what the except branch leaves (lines 80-82,
\* 186-188).
MaybeSingle(matching, ok) == IF Returns(matching, ok) THEN matching ELSE {}

\* A datastore call as the history records it.
Call(table, op, provider, key, ok) ==
    [table |-> table, op |-> op, provider |-> provider, key |-> key, ok |-> ok,
     fields |-> {}, row |-> NullId]

\* An update call, with the names of the fields it carries.
Update(table, provider, key, ok, fields) ==
    [Call(table, "update", provider, key, ok) EXCEPT !.fields = fields]

\* 0 for a call that succeeded, 1 for one that raised.
Raised(ok) == IF ok THEN 0 ELSE 1

\* --------------------------------------------------------- upsert_provider
\* ProviderUpdates without the truth tests of lines 91 and 93: a desired
\* value that is empty counts as any other.
ProviderUpdates_with_empty(existing, endpoint, icon_url) ==
    (IF existing.apiEndpoint # endpoint THEN {"apiEndpoint"} ELSE {})
    \cup
    (IF existing.icon # icon_url THEN {"icon"} ELSE {})

\* The fields of an existing Provider row to update (lines 89-94).
ProviderUpdates(existing, endpoint, icon_url) ==
    (IF endpoint # "" /\ existing.apiEndpoint # endpoint THEN {"apiEndpoint"} ELSE {})
    \cup
    (IF icon_url # "" /\ existing.icon # icon_url THEN {"icon"} ELSE {})

\* The outcomes of upsert_provider(sb, provider_name, cfg) on table P with
\* new_id the uuid drawn: the table it leaves, the id it returns, the calls it
\* issued, how many raised, whether new_id was stored.
upsert_provider(P, provider_name, cfg, new_id) ==
    LET icon_url == cfg.icon
        endpoint == Endpoint(provider_name)
        matching == {p \in P : p.name = provider_name}
        data_row == [id |-> new_id, name |-> provider_name,
                     apiEndpoint |-> endpoint, icon |-> icon_url]
        Desired == [apiEndpoint |-> endpoint, icon |-> icon_url]
        Found(lok, e) ==
            LET updates == ProviderUpdates(e, endpoint, icon_url)
                updated == [f \in DOMAIN e |-> IF f \in updates THEN Desired[f] ELSE e[f]]
                sel == Call("Provider", "select", provider_name, "", TRUE)
            IN IF updates = {}
               THEN {[table |-> P, id |-> e.id, calls |-> {sel}, raised |-> Raised(lok),
                      drawn |-> 0]}
               ELSE {[table |-> IF wok
                                THEN {IF p.id = e.id THEN updated ELSE p : p \in P}
                                ELSE P,
                      id |-> e.id,
                      calls |-> {sel, Update("Provider", provider_name, "", wok, updates)},
                      raised |-> Raised(lok) + Raised(wok),
                      drawn |-> 0] : wok \in BOOLEAN}
        Absent(lok) ==
            LET sel == Call("Provider", "select", provider_name, "", Returns(matching, lok))
            IN {[table |-> IF wok THEN P \cup {data_row} ELSE P,
                 id |-> IF wok THEN new_id ELSE NullId,
                 calls |-> {sel, Call("Provider", "insert", provider_name, "", wok)},
                 raised |-> Raised(lok) + Raised(wok),
                 drawn |-> IF wok THEN 1 ELSE 0] : wok \in BOOLEAN}
    IN UNION {IF MaybeSingle(matching, lok) = {} THEN Absent(lok)
              ELSE UNION {Found(lok, existing) : existing \in MaybeSingle(matching, lok)}
              : lok \in BOOLEAN}

\* -------------------------------------------------------------- sync_model
\* is_archived with the comparison of line 142 strict: a date equal to today
\* no longer archives.
is_archived_strictly_before(cfg, key) ==
    LET dep_str == Get(cfg.depreciationDate, key, None)
    IN /\ dep_str # None
       /\ dep_str # ""
       /\ dep_str \in DOMAIN IsoDay
       /\ IsoDay[dep_str] < Today

\* is_archived with an except branch (lines 144-145) that sets the flag: a
\* depreciationDate that does not parse archives.
is_archived_when_unparsed(cfg, key) ==
    LET dep_str == Get(cfg.depreciationDate, key, None)
    IN /\ dep_str # None
       /\ dep_str # ""
       /\ dep_str \in DOMAIN IsoDay => IsoDay[dep_str] <= Today

\* The deprecation archive flag (lines 137-145): a depreciationDate that
\* parses and is on or before today; a ValueError leaves the flag False.
is_archived(cfg, key) ==
    LET dep_str == Get(cfg.depreciationDate, key, None)
    IN /\ dep_str # None
       /\ dep_str # ""
       /\ dep_str \in DOMAIN IsoDay
       /\ IsoDay[dep_str] <= Today

\* The record sync_model builds (lines 148-171).
BuildRec(provider_id, key, cfg, model_id, current_time_iso) ==
    [id |-> model_id,
     apiString |-> key,
     providerId |-> provider_id,
     createdAt |-> current_time_iso,
     updatedAt |-> current_time_iso,
     name |-> Get(cfg.name, key, key),
     costPerMillionTokenInput |-> cfg.price[key].input,
     costPerMillionTokenOutput |-> cfg.price[key].output,
     capabilities |-> Get(cfg.capabilities, key, <<>>),
     availableForChatApp |->
        IF Get(cfg.availableForChatApp, key, None) \in {"Free", "Pro"}
        THEN cfg.availableForChatApp[key] ELSE None,
     description |-> Get(cfg.descriptions, key, ""),
     releaseDate |-> extract_date(key),
     isArchived |-> is_archived(cfg, key)]

\* excluded_from_comparison without "createdAt": the creation time is
\* compared, and rewritten, as any other field.
excluded_id_and_updatedAt == {"id", "updatedAt"}

excluded_from_comparison == {"id", "createdAt", "updatedAt"}

\* ModelUpdates with capabilities compared as the other fields are, as
\* lists: the order and the repetitions of the tags count.
ModelUpdates_by_sequence(existing, rec) ==
    {field \in DOMAIN rec \ excluded_from_comparison : existing[field] # rec[field]}

\* The fields of rec that differ from the existing row (lines 196-209);
\* capabilities are compared as sets.
ModelUpdates(existing, rec) ==
    {field \in DOMAIN rec \ excluded_from_comparison :
        IF field = "capabilities"
        THEN Range(existing[field]) # Range(rec[field])
        ELSE existing[field] # rec[field]}

\* ApplyModelUpdates without the .eq("apiString", key) of line 219: every row
\* of the table is updated.
ApplyModelUpdates_every_row(M, key, updates, rec, now) ==
    {[f \in DOMAIN m |-> IF f \in updates THEN rec[f]
                         ELSE IF f = "updatedAt" THEN now ELSE m[f]] : m \in M}

\* .update(updates).eq("apiString", key) on table M (lines 212-221).
ApplyModelUpdates(M, key, updates, rec, now) ==
    {IF m.apiString = key
     THEN [f \in DOMAIN m |-> IF f \in updates THEN rec[f]
                              ELSE IF f = "updatedAt" THEN now ELSE m[f]]
     ELSE m : m \in M}

\* The outcomes of sync_model(sb, provider_id, key, cfg, models_filter) on
\* table M, with cfg["provider"] = provider, model_id the uuid drawn and now
\* the time read: the table it leaves, the calls it issued, how many raised,
\* whether model_id was stored.
sync_model(M, provider_id, provider, key, cfg, filter, model_id, now) ==
    LET full_name == FullName(provider, key)
        rec == BuildRec(provider_id, key, cfg, model_id, now)
        matching == {m \in M : m.apiString = key}
        Found(lok, e) ==
            LET updates == ModelUpdates(e, rec)
                sel == Call("Model", "select", provider, key, TRUE)
            IN IF updates = {}
               THEN {[table |-> M, calls |-> {sel}, raised |-> Raised(lok), drawn |-> 0]}
               ELSE {[table |-> IF wok THEN ApplyModelUpdates(M, key, updates, rec, now)
                                ELSE M,
                      calls |-> {sel, Update("Model", provider, key, wok, updates \cup {"updatedAt"})},
                      raised |-> Raised(lok) + Raised(wok),
                      drawn |-> 0] : wok \in BOOLEAN}
        Absent(lok) ==
            LET sel == Call("Model", "select", provider, key, Returns(matching, lok))
            IN {[table |-> IF wok THEN M \cup {rec} ELSE M,
                 calls |-> {sel, Call("Model", "insert", provider, key, wok)},
                 raised |-> Raised(lok) + Raised(wok),
                 drawn |-> IF wok THEN 1 ELSE 0] : wok \in BOOLEAN}
        Skip == {[table |-> M, calls |-> {}, raised |-> 0, drawn |-> 0]}
    IN IF filter # <<>> /\ full_name \notin Range(filter) THEN Skip
       ELSE IF key \notin DOMAIN cfg.price THEN Skip
       ELSE UNION {IF MaybeSingle(matching, lok) = {} THEN Absent(lok)
                   ELSE UNION {Found(lok, existing) : existing \in MaybeSingle(matching, lok)}
                   : lok \in BOOLEAN}

\* ------------------------------------------------ archive_removed_entities
\* One datastore call of the sweep: the Provider fetch (line 247), the Model
\* fetch for a provider in step 1 or 2 (lines 261-266, 291-296), the update
\* archiving a row in step 1 or 2 (lines 275-280, 308-313).
SweepCall(what, provider_name, row) ==
    [what |-> what, name |-> provider_name, row |-> row]

\* .update({"isArchived": True, "updatedAt": now_iso}).eq("id", id) for the
\* ids of rows.
ArchiveRows(M, rows, now_iso) ==
    {IF \E r \in rows : r.id = m.id
     THEN [m EXCEPT !.isArchived = TRUE, !.updatedAt = now_iso]
     ELSE m : m \in M}

\* SweepPass in which an exception raised in step 1 is not caught per
\* provider and per row (lines 267-269, 281-282) but ends the sweep, as the
\* one of the Provider fetch does: step 2 is then not run.
SweepPass_ended_by_failure(P, M, models_by_provider, now_iso, db_name_to_id, F) ==
    LET json_provider_names == DOMAIN models_by_provider
        missing_providers == DOMAIN db_name_to_id \ json_provider_names
        fetched1 == {n \in missing_providers : SweepCall("fetch1", n, 0) \notin F}
        to_archive1 == {m \in M : /\ ~m.isArchived
                                  /\ \E n \in fetched1 : m.providerId = db_name_to_id[n]}
        M1 == ArchiveRows(M, {m \in to_archive1 : SweepCall("archive1", "", m.id) \notin F},
                          now_iso)
        ended == \E c \in F : c.what \in {"fetch1", "archive1"}
        fetched2 == {n \in json_provider_names :
                       ~ended /\ SweepCall("fetch2", n, 0) \notin F}
        to_archive2 == {m \in M1 :
                          /\ ~m.isArchived
                          /\ \E n \in fetched2 :
                                /\ m.providerId = models_by_provider[n].id
                                /\ m.apiString \notin models_by_provider[n].models_set}
        M2 == ArchiveRows(M1, {m \in to_archive2 : SweepCall("archive2", "", m.id) \notin F},
                          now_iso)
    IN IF SweepCall("providers", "", 0) \in F
       THEN [table |-> M, issued |-> {SweepCall("providers", "", 0)}]
       ELSE [table |-> M2,
             issued |-> {SweepCall("providers", "", 0)}
                        \cup {SweepCall("fetch1", n, 0) : n \in missing_providers}
                        \cup {SweepCall("archive1", "", m.id) : m \in to_archive1}
                        \cup {SweepCall("fetch2", n, 0) :
                                n \in IF ended THEN {} ELSE json_provider_names}
                        \cup {SweepCall("archive2", "", m.id) : m \in to_archive2}]

\* One pass of archive_removed_entities on tables P and M in which exactly
\* the calls of F raise, db_name_to_id being the dict built at line 253: the
\* table it leaves and the calls it issued.
SweepPass(P, M, models_by_provider, now_iso, db_name_to_id, F) ==
    LET json_provider_names == DOMAIN models_by_provider
        missing_providers == DOMAIN db_name_to_id \ json_provider_names
        fetched1 == {n \in missing_providers : SweepCall("fetch1", n, 0) \notin F}
        to_archive1 == {m \in M : /\ ~m.isArchived
                                  /\ \E n \in fetched1 : m.providerId = db_name_to_id[n]}
        M1 == ArchiveRows(M, {m \in to_archive1 : SweepCall("archive1", "", m.id) \notin F},
                          now_iso)
        fetched2 == {n \in json_provider_names : SweepCall("fetch2", n, 0) \notin F}
        to_archive2 == {m \in M1 :
                          /\ ~m.isArchived
                          /\ \E n \in fetched2 :
                                /\ m.providerId = models_by_provider[n].id
                                /\ m.apiString \notin models_by_provider[n].models_set}
        M2 == ArchiveRows(M1, {m \in to_archive2 : SweepCall("archive2", "", m.id) \notin F},
                          now_iso)
    IN IF SweepCall("providers", "", 0) \in F
       THEN [table |-> M, issued |-> {SweepCall("providers", "", 0)}]
       ELSE [table |-> M2,
             issued |-> {SweepCall("providers", "", 0)}
                        \cup {SweepCall("fetch1", n, 0) : n \in missing_providers}
                        \cup {SweepCall("archive1", "", m.id) : m \in to_archive1}
                        \cup {SweepCall("fetch2", n, 0) : n \in json_provider_names}
                        \cup {SweepCall("archive2", "", m.id) : m \in to_archive2}]

\* The outcomes of archive_removed_entities(sb, models_by_provider) on tables
\* P and M when at most budget calls raise.  With several Provider rows of one
\* name, the dict of line 253 keeps the id of whichever row the fetch
\* returned last.
archive_removed_entities(P, M, models_by_provider, now_iso, budget) ==
    LET names == {p.name : p \in P}
        dicts == {d \in [names -> {p.id : p \in P}] :
                    \A n \in names : \E p \in P : p.name = n /\ p.id = d[n]}
        all == {SweepCall("providers", "", 0)}
               \cup {SweepCall(w, n, 0) : w \in {"fetch1", "fetch2"},
                                         n \in names \cup DOMAIN models_by_provider}
               \cup {SweepCall(w, "", m.id) : w \in {"archive1", "archive2"}, m \in M}
    IN {[table |-> SweepPass(P, M, models_by_provider, now_iso, x[1], x[2]).table,
         issued |-> SweepPass(P, M, models_by_provider, now_iso, x[1], x[2]).issued,
         failed |-> x[2],
         raised |-> Cardinality(x[2])] :
          x \in {y \in dicts \X SubsetsUpTo(all, budget) :
                   y[2] \subseteq
                     SweepPass(P, M, models_by_provider, now_iso, y[1], y[2]).issued}}

\* -------------------------------------------------------------------- Init
\* The store a run starts from is what earlier runs over earlier documents
\* left: at most one Provider row per name and one Model row per key, each
\* Model row as sync_model writes it; the "gpt-x" row belongs to either
\* provider and is archived or not.
SeedCfg == MkCfg("", <<"gpt-x", "m-2024-05-13">>, Keys, EmptyMap, CapsMap)

SeedProvider(provider_name) ==
    [id |-> IF provider_name = "openai" THEN 1 ELSE 2,
     name |-> provider_name,
     apiEndpoint |-> "https://old.example",
     icon |-> "icon-0"]

SeedModel(provider_id, key, model_id, archived) ==
    [BuildRec(provider_id, key, SeedCfg, model_id, 0) EXCEPT !.isArchived = archived]

SeedModels(P) ==
    LET xs == {{}} \cup {{SeedModel(p.id, "gpt-x", 3, a)} : p \in P, a \in BOOLEAN}
        ms == {{}} \cup {{SeedModel(p.id, "m-2024-05-13", 4, FALSE)} :
                            p \in {q \in P : q.name = "openai"}}
    IN {x \cup m : x \in xs, m \in ms}

Init ==
    /\ Provider \in {{SeedProvider(n) : n \in S} : S \in SUBSET ProviderNames}
    /\ Model \in SeedModels(Provider)
    /\ data \in Documents
    /\ models_filter \in Filters
    /\ pc = "idle"
    /\ i = 0
    /\ j = 0
    /\ pid = NullId
    /\ clock = 0
    /\ nextId = 5
    /\ runs = 0
    /\ failures = 0
    /\ Provider0 = Provider
    /\ Model0 = Model
    /\ pids = EmptyMap
    /\ calls = {}
    /\ synced = {}
    /\ sweeps = 0
    /\ ProviderOrigin = Provider
    /\ ModelOrigin = Model
    /\ faulty = {}

\* -------------------------------------------------------------------- main
\* The for loop of main moves on to the provider item after item k, or ends.
NextItem(k) ==
    IF k < Len(data)
    THEN pc' = "provider" /\ i' = k + 1 /\ j' = 0 /\ pid' = NullId
    ELSE pc' = "done" /\ i' = k /\ j' = 0 /\ pid' = NullId

\* main, lines 320-338: a run starts, the document is loaded.
StartRun ==
    /\ runs < MaxRuns
    /\ runs' = runs + 1
    /\ clock' = clock + 1
    /\ Provider0' = Provider
    /\ Model0' = Model
    /\ pids' = EmptyMap
    /\ calls' = {}
    /\ synced' = {}
    /\ sweeps' = 0
    /\ NextItem(0)
    /\ UNCHANGED <<store, input, nextId, failures, origin, faulty>>

\* The process is started, for the first time or after an earlier run ended.
main ==
    /\ pc \in {"idle", "done"}
    /\ StartRun

\* main_upsert_provider without the test of lines 342-346: the models of the
\* provider are synced whatever upsert_provider returned.
main_upsert_provider_any_pid ==
    /\ pc = "provider"
    /\ \E o \in upsert_provider(Provider, data[i].provider, data[i].cfg, nextId) :
        /\ failures + o.raised <= MaxFailures
        /\ Provider' = o.table
        /\ nextId' = nextId + o.drawn
        /\ failures' = failures + o.raised
        /\ faulty' = IF o.raised > 0 THEN faulty \cup {runs} ELSE faulty
        /\ pids' = (data[i].provider :> o.id) @@ pids
        /\ calls' = calls \cup o.calls
        /\ IF data[i].cfg.models = <<>>
           THEN NextItem(i)
           ELSE pc' = "model" /\ i' = i /\ j' = 1 /\ pid' = o.id
    /\ UNCHANGED <<Model, input, clock, runs, Provider0, Model0, synced, sweeps, origin>>

\* main, lines 340-346: pid = upsert_provider(sb, provider, cfg); a falsy pid
\* skips the provider's models.
main_upsert_provider ==
    /\ pc = "provider"
    /\ \E o \in upsert_provider(Provider, data[i].provider, data[i].cfg, nextId) :
        /\ failures + o.raised <= MaxFailures
        /\ Provider' = o.table
        /\ nextId' = nextId + o.drawn
        /\ failures' = failures + o.raised
        /\ faulty' = IF o.raised > 0 THEN faulty \cup {runs} ELSE faulty
        /\ pids' = (data[i].provider :> o.id) @@ pids
        /\ calls' = calls \cup o.calls
        /\ IF o.id = NullId \/ data[i].cfg.models = <<>>
           THEN NextItem(i)
           ELSE pc' = "model" /\ i' = i /\ j' = 1 /\ pid' = o.id
    /\ UNCHANGED <<Model, input, clock, runs, Provider0, Model0, synced, sweeps, origin>>

\* main, lines 347-348: sync_model(sb, pid, model_key, cfg, models_filter)
\* for the next model key of the provider.
main_sync_model ==
    /\ pc = "model"
    /\ LET provider == data[i].provider
           cfg == data[i].cfg
           key == cfg.models[j]
       IN \E o \in sync_model(Model, pid, provider, key, cfg, models_filter,
                              nextId, clock) :
            /\ failures + o.raised <= MaxFailures
            /\ Model' = o.table
            /\ nextId' = nextId + o.drawn
            /\ failures' = failures + o.raised
            /\ faulty' = IF o.raised > 0 THEN faulty \cup {runs} ELSE faulty
            /\ calls' = calls \cup o.calls
            /\ synced' = synced \cup {<<provider, key>>}
            /\ IF j < Len(cfg.models)
               THEN pc' = "model" /\ i' = i /\ j' = j + 1 /\ pid' = pid
               ELSE NextItem(i)
    /\ UNCHANGED <<Provider, input, clock, runs, Provider0, Model0, pids, sweeps, origin>>

\* The sweep as its docstring has it called (lines 238-242), once the loop of
\* main has ended: models_by_provider maps every provider name of the
\* document to the id upsert_provider returned and the set of its model keys.
ModelsByProvider ==
    [n \in {data[k].provider : k \in DOMAIN data} |->
        [id |-> Get(pids, n, NullId),
         models_set |-> UNION {Range(data[k].cfg.models) :
                                 k \in {h \in DOMAIN data : data[h].provider = n}}]]

main_archive_removed_entities ==
    /\ pc = "done"
    /\ sweeps = 0
    /\ \E o \in archive_removed_entities(Provider, Model, ModelsByProvider, clock,
                                         MaxFailures - failures) :
        /\ Model' = o.table
        /\ failures' = failures + o.raised
        /\ faulty' = IF o.raised > 0 THEN faulty \cup {runs} ELSE faulty
        /\ calls' = calls \cup {[Call("sweep", c.what, c.name, "", c \notin o.failed)
                                     EXCEPT !.row = c.row] : c \in o.issued}
    /\ sweeps' = 1
    /\ UNCHANGED <<Provider, input, position, clock, nextId, runs, Provider0, Model0,
                   pids, synced, origin>>

Next ==
    \/ main
    \/ main_upsert_provider
    \/ main_sync_model

Spec == Init /\ [][Next]_vars

\* The process is started once the sweep has followed the loop of the
\* earlier run.
main_after_sweep ==
    /\ pc = "idle" \/ (pc = "done" /\ sweeps = 1)
    /\ StartRun

\* The runs of main, each followed by the sweep.
NextSweep ==
    \/ main_after_sweep
    \/ main_upsert_provider
    \/ main_sync_model
    \/ main_archive_removed_entities

SpecSweep == Init /\ [][NextSweep]_vars

\* ------------------------------------------- runs that vary the model fields
\* Documents of "openai" alone listing and pricing both keys, in which
\* "gpt-x" has any depreciationDate (none, empty, the day before today, today
\* with or without a time of day, the day after, a string that is no date),
\* any capabilities list (none, the stored list, the same tags in another
\* order or repeated, other tags) and either price.
DepStrings ==
    {"", "2026-11-04", "2026-11-05", "2026-11-05T23:59:59", "2026-11-06", "soon"}
CapsLists ==
    {<<"vision", "pdf">>, <<"pdf", "vision">>, <<"pdf", "vision", "pdf">>, <<"pdf">>}
Prices == {ThePrice, [input |-> 3, output |-> 2]}

FieldCfgs ==
    {[MkCfg("", <<"gpt-x", "m-2024-05-13">>, Keys, dep, caps)
        EXCEPT !.price = [k \in Keys |-> IF k = "gpt-x" THEN pr ELSE ThePrice]] :
        dep \in {EmptyMap} \cup {("gpt-x" :> d) : d \in DepStrings},
        caps \in {EmptyMap} \cup {("gpt-x" :> c) : c \in CapsLists},
        pr \in Prices}

FieldDocuments == {<<[provider |-> "openai", cfg |-> c]>> : c \in FieldCfgs}

\* The store holds "openai" or nothing, and under "openai" any of the seeded
\* Model rows; no allow-list is given.
InitFields ==
    /\ Provider \in {{}, {SeedProvider("openai")}}
    /\ Model \in SeedModels(Provider)
    /\ data \in FieldDocuments
    /\ models_filter = <<>>
    /\ pc = "idle"
    /\ i = 0
    /\ j = 0
    /\ pid = NullId
    /\ clock = 0
    /\ nextId = 5
    /\ runs = 0
    /\ failures = 0
    /\ Provider0 = Provider
    /\ Model0 = Model
    /\ pids = EmptyMap
    /\ calls = {}
    /\ synced = {}
    /\ sweeps = 0
    /\ ProviderOrigin = Provider
    /\ ModelOrigin = Model
    /\ faulty = {}

SpecFields == InitFields /\ [][Next]_vars

\* ------------------------------------------------------------- vocabulary
\* The provider names of the document and the model keys each lists.
DocNames == {data[k].provider : k \in DOMAIN data}
CfgOf(n) == (CHOOSE k \in DOMAIN data : data[k].provider = n)
ListedKeys(n) == Range(data[CfgOf(n)].cfg.models)
PricedKeys(n) == DOMAIN data[CfgOf(n)].cfg.price

\* The inserts and updates issued so far in this run by upsert_provider and
\* sync_model.
Writes == {c \in calls : c.table \in {"Provider", "Model"} /\ c.op \in {"insert", "update"}}

\* The loop of main has ended.
RunEnded == runs >= 1 /\ pc = "done"

\* The row of M that has the id of row m, archived by the sweep and otherwise
\* as m.
ArchivedAs(m, M) == [m EXCEPT !.isArchived = TRUE] \in M

\* ------------------------------------------------------------------ C1
\* C1: after a failure-free run over a document, a second failure-free run
\* over the same document on the same date issues no Provider or Model
\* insert and no Provider or Model update, whatever the document (two
\* providers may list the same key).
C1_SecondRunIsQuiet ==
    (runs = 2 /\ failures = 0) => Writes = {}

\* ------------------------------------------------------------------ C2
\* C2: when a run of main has ended, every Model row that was not archived
\* when it started, belongs to a provider of the document and has an
\* apiString outside that provider's model list is archived with every other
\* field unchanged, and no row whose apiString is in its provider's list was
\* archived by the sweep.
C2_SweepOnRemoval ==
    RunEnded =>
        \A m \in Model0 : \A p \in Provider0 :
            (p.id = m.providerId /\ p.name \in DocNames /\ ~m.isArchived
                /\ m.apiString \notin ListedKeys(p.name))
            => ArchivedAs(m, Model)

\* ------------------------------------------------------------------ C3
\* C3: when a run of main has ended, every Model row of a persisted provider
\* whose name is absent from the document is archived, and no insert or
\* update was issued on that Provider row.
C3_OrphanedProviderSweep ==
    RunEnded =>
        \A p \in Provider0 :
            p.name \notin DocNames =>
                /\ \A m \in Model0 :
                      (m.providerId = p.id /\ ~m.isArchived)
                      => \E n \in Model : n.id = m.id /\ n.isArchived
                /\ \A c \in Writes : ~(c.table = "Provider" /\ c.provider = p.name)
                /\ p \in Provider

\* ------------------------------------------------------------------ C4
\* C4: by the time a run is over (the next one starts), whatever calls
\* failed, upsert_provider was invoked for every provider of the document,
\* sync_model for every key of every provider that got an id, and the
\* archival sweep was executed exactly once.
C4_EveryEntityThenSweep ==
    [][(runs >= 1 /\ runs' = runs + 1) =>
          /\ DOMAIN pids = DocNames
          /\ \A n \in DocNames :
                pids[n] # NullId => \A k \in ListedKeys(n) : <<n, k>> \in synced
          /\ sweeps = 1]_vars

\* ------------------------------------------------------------------ C5
\* The key has a depreciation date that is a well-formed date on or before
\* today.
Deprecated(cfg, key) ==
    \E d \in DOMAIN IsoDay :
        /\ key \in DOMAIN cfg.depreciationDate
        /\ cfg.depreciationDate[key] = d
        /\ IsoDay[d] <= Today

\* C5 as stated: once a Model row has isArchived = true, no step of the
\* reconciler (sync_model, archive_removed_entities) sets it back to false.
C5_NoUnarchival ==
    [][\A m \in Model : \A n \in Model' :
          (n.id = m.id /\ m.isArchived) => n.isArchived]_vars

\* C5, amended: a Model row that has isArchived = true is set back to false
\* only by sync_model, called for the row's own apiString with a key that is
\* priced, passes the allow-list and has no well-formed depreciation date on
\* or before today; archive_removed_entities never sets it back.
C5_UnarchivalOnlyByDiff ==
    [][\A m \in Model : \A n \in Model' :
          (n.id = m.id /\ m.isArchived /\ ~n.isArchived) =>
              /\ pc = "model"
              /\ sweeps' = sweeps
              /\ m.apiString = data[i].cfg.models[j]
              /\ m.apiString \in DOMAIN data[i].cfg.price
              /\ (models_filter = <<>>
                    \/ FullName(data[i].provider, m.apiString) \in Range(models_filter))
              /\ ~Deprecated(data[i].cfg, m.apiString)]_vars

\* A row archived when the run started is no longer archived, and the sweep
\* has run.
C5_Witness ==
    /\ sweeps = 1
    /\ \E m \in Model0 : \E n \in Model : n.id = m.id /\ m.isArchived /\ ~n.isArchived

\* ------------------------------------------------------------------ C6
\* C6: in a run with a non-empty allow-list, sync_model issues no datastore
\* call for a model whose full name is not listed, and when the run has ended
\* the sweep has archived exactly the rows absent from the document: every
\* row whose key is outside its provider's model list, and no row whose key
\* is in it.
C6_FilterScope ==
    models_filter # <<>> =>
        /\ \A c \in calls :
              c.table = "Model" => FullName(c.provider, c.key) \in Range(models_filter)
        /\ RunEnded =>
              \A m \in Model0 : \A p \in Provider0 :
                  (p.id = m.providerId /\ p.name \in DocNames /\ ~m.isArchived) =>
                      IF m.apiString \in ListedKeys(p.name)
                      THEN \A n \in Model :
                              (n.id = m.id /\ n.isArchived) => is_archived(data[CfgOf(p.name)].cfg, m.apiString)
                      ELSE \E n \in Model : n.id = m.id /\ n.isArchived

\* ------------------------------------------------------------------ C7
\* The datastore calls sync_model issued for key k of provider n.
CallsFor(n, k) == {c \in calls : c.table = "Model" /\ c.provider = n /\ c.key = k}

\* C7 as stated: when a run has ended, for every key a provider lists without
\* a pricing entry no Model insert or update was issued for the key, and every
\* Model row that had that apiString when the run started is unchanged.
C7_PricingGate ==
    RunEnded =>
        \A n \in DocNames : \A k \in ListedKeys(n) \ PricedKeys(n) :
            /\ \A c \in Writes : ~(c.table = "Model" /\ c.key = k)
            /\ \A m \in Model0 : m.apiString = k => m \in Model

\* C7, amended: for every key a provider lists without a pricing entry,
\* sync_model issues no datastore call for that provider's key, and every
\* Model row that had that apiString when the run started is unchanged when
\* the run has ended, unless another provider of the document lists the same
\* key with a pricing entry.
C7_PricingGateUnshared ==
    \A n \in DocNames : \A k \in ListedKeys(n) \ PricedKeys(n) :
        /\ CallsFor(n, k) = {}
        /\ (RunEnded /\ \A n2 \in DocNames \ {n} : k \notin ListedKeys(n2) \cap PricedKeys(n2))
            => \A m \in Model0 : m.apiString = k => m \in Model

\* A run has ended in which sync_model skipped an unpriced key that has a
\* persisted row, and wrote another row.
C7_Witness ==
    /\ RunEnded
    /\ \E n \in DocNames : \E k \in ListedKeys(n) \ PricedKeys(n) :
          /\ <<n, k>> \in synced
          /\ \E m \in Model0 : m.apiString = k
          /\ \A n2 \in DocNames \ {n} : k \notin ListedKeys(n2) \cap PricedKeys(n2)
    /\ \E c \in Writes : c.table = "Model" /\ c.op = "update" /\ c.ok

\* ------------------------------------------------------------------ C8
\* C8: once a lookup or a write has failed inside upsert_provider for a
\* provider, no Model insert or update is issued for any key of that provider
\* in the run, and a failed lookup is followed by no Provider insert.
C8_ProviderUnusable ==
    \A c \in calls :
        (c.table = "Provider" /\ ~c.ok) =>
            /\ \A d \in Writes : ~(d.table = "Model" /\ d.provider = c.provider)
            /\ c.op = "select" =>
                  \A d \in Writes :
                      ~(d.table = "Provider" /\ d.op = "insert" /\ d.provider = c.provider)

\* ------------------------------------------------------------------ C9
\* C9: a failed lookup in sync_model is followed by no insert and no update
\* for that model, and when the run has ended every provider and every key of
\* every provider that got an id has been processed.
C9_ModelFaultIsolation ==
    /\ \A c \in calls :
          (c.table = "Model" /\ c.op = "select" /\ ~c.ok) =>
              \A d \in Writes :
                  ~(d.table = "Model" /\ d.provider = c.provider /\ d.key = c.key)
    /\ RunEnded =>
          /\ DOMAIN pids = DocNames
          /\ \A n \in DocNames :
                pids[n] # NullId => \A k \in ListedKeys(n) : <<n, k>> \in synced

\* ------------------------------------------------------------------ C10
\* C10: the store never holds two Provider rows of one name, and when a run
\* has ended it holds exactly one for every name upsert_provider returned an
\* id for.
C10_OneProviderRowPerName ==
    /\ \A p \in Provider : \A q \in Provider : p.name = q.name => p = q
    /\ RunEnded =>
          \A n \in DOMAIN pids :
              pids[n] # NullId => Cardinality({p \in Provider : p.name = n}) = 1

\* ------------------------------------------------------------------ C11
\* The outcome of a call in which no datastore call is made to raise.
NoRaise(outcomes) == CHOOSE o \in outcomes : o.raised = 0

\* The inner loop of main (lines 347-348) from the k-th model key of the
\* provider on, no call raising: the table Model it leaves and the next
\* uuid.
RECURSIVE SyncModelsFrom(_, _, _, _, _, _, _)
SyncModelsFrom(M, provider_id, provider, cfg, k, new_id, now) ==
    IF k > Len(cfg.models) THEN [Model |-> M, nextId |-> new_id]
    ELSE LET o == NoRaise(sync_model(M, provider_id, provider, cfg.models[k], cfg,
                                     models_filter, new_id, now))
         IN SyncModelsFrom(o.table, provider_id, provider, cfg, k + 1,
                           new_id + o.drawn, now)

\* The loop of main (lines 340-348) from the k-th provider item on, no call
\* raising: the tables it leaves.
RECURSIVE SyncItemsFrom(_, _, _, _, _)
SyncItemsFrom(P, M, k, new_id, now) ==
    IF k > Len(data) THEN [Provider |-> P, Model |-> M]
    ELSE LET o == NoRaise(upsert_provider(P, data[k].provider, data[k].cfg, new_id))
             r == IF o.id = NullId THEN [Model |-> M, nextId |-> new_id + o.drawn]
                  ELSE SyncModelsFrom(M, o.id, data[k].provider, data[k].cfg, 1,
                                      new_id + o.drawn, now)
         IN SyncItemsFrom(o.table, r.Model, k + 1, r.nextId, now)

\* A store up to generated ids and timestamps: every Provider row without
\* its id, every Model row without id, createdAt and updatedAt and with the
\* name of its provider for providerId, each with the number of rows alike.
ProviderShape(p) == [f \in DOMAIN p \ {"id"} |-> p[f]]
ModelShape(m, P) ==
    [row |-> [f \in DOMAIN m \ {"id", "createdAt", "updatedAt", "providerId"} |-> m[f]],
     owner |-> {p.name : p \in {q \in P : q.id = m.providerId}}]
StoreShape(P, M) ==
    [providers |-> {[shape |-> ProviderShape(p),
                     copies |-> Cardinality({q \in P : ProviderShape(q) = ProviderShape(p)})]
                    : p \in P},
     models |-> {[shape |-> ModelShape(m, P),
                  copies |-> Cardinality({q \in M : ModelShape(q, P) = ModelShape(m, P)})]
                 : m \in M}]

\* C11: when a run in which calls raised has been followed by a run of the
\* same document in which none raised, the store equals, up to generated ids
\* and timestamps, the store a single run without failures leaves from the
\* original store; and a third run without failures issues no insert and no
\* update.
C11_ConvergesAfterFailures ==
    /\ (RunEnded /\ runs = 2 /\ faulty = {1}) =>
          LET clean == SyncItemsFrom(ProviderOrigin, ModelOrigin, 1, nextId, clock)
          IN StoreShape(Provider, Model) = StoreShape(clean.Provider, clean.Model)
    /\ (runs = 3 /\ faulty = {1}) => Writes = {}

\* ------------------------------------------------------------------ C12
\* C12: every Model row that a step of sync_model inserts or diff-updates has
\* isArchived true exactly when its key has a depreciationDate that parses
\* as a date d with d <= today, the time of day dropped: true for d equal to
\* today, false for the day after, false without a depreciationDate.
C12_DepreciationBoundary ==
    [][pc = "model" =>
          \A m \in Model' \ Model :
              m.apiString = data[i].cfg.models[j] =>
                  (m.isArchived <=> Deprecated(data[i].cfg, m.apiString))]_vars

\* A run has ended in which sync_model wrote the row of "gpt-x", whose
\* depreciationDate is today, and left it archived.
C12_Witness ==
    /\ RunEnded
    /\ Get(data[1].cfg.depreciationDate, "gpt-x", None) = "2026-11-05"
    /\ \E m \in Model \ Model0 : m.apiString = "gpt-x" /\ m.isArchived
    /\ \E c \in Writes : c.table = "Model" /\ c.key = "gpt-x" /\ c.ok

\* ------------------------------------------------------------------ C13
\* What a step of sync_model is called on, and what it then does: the key,
\* the record it builds, the calls it issues, the row its lookup returns.
StepCfg == data[i].cfg
StepKey == StepCfg.models[j]
StepRec == BuildRec(pid, StepKey, StepCfg, nextId, clock)
StepCalls == calls' \ calls
StepFound ==
    {e \in Model :
        /\ e.apiString = StepKey
        /\ \E c \in StepCalls : c.table = "Model" /\ c.op = "select" /\ c.ok
        /\ \A m \in Model : m.apiString = StepKey => m = e}
StepWrites == {c \in StepCalls : c.op \in {"insert", "update"}}

\* The compared fields other than capabilities.
ScalarFields == DOMAIN StepRec \ {"capabilities", "id", "createdAt", "updatedAt"}

\* C13: when sync_model finds a row whose capabilities hold the same set of
\* tags as the desired list and whose other compared fields equal the desired
\* ones, it issues no write and leaves the table as it is; when it finds a
\* row whose set of tags differs, it issues an update that carries
\* capabilities.
C13_CapabilitiesAsSet ==
    [][pc = "model" =>
          \A e \in StepFound :
              /\ (/\ Range(e.capabilities) = Range(StepRec.capabilities)
                  /\ \A f \in ScalarFields : e[f] = StepRec[f])
                 => (StepWrites = {} /\ Model' = Model)
              /\ Range(e.capabilities) # Range(StepRec.capabilities)
                 => \E c \in StepWrites :
                        /\ c.op = "update"
                        /\ c.key = StepKey
                        /\ "capabilities" \in c.fields]_vars

\* A run has ended in which sync_model found the row of "gpt-x" holding
\* ["vision", "pdf"], the document having ["pdf", "vision"], and wrote
\* nothing for it.
C13_Witness ==
    /\ RunEnded
    /\ Get(data[1].cfg.capabilities, "gpt-x", <<>>) = <<"pdf", "vision">>
    /\ \E m \in Model0 :
          m.apiString = "gpt-x" /\ m.capabilities = <<"vision", "pdf">> /\ m \in Model
    /\ \E c \in calls : c.table = "Model" /\ c.op = "select" /\ c.key = "gpt-x" /\ c.ok
    /\ ~\E c \in Writes : c.table = "Model" /\ c.key = "gpt-x"

\* ------------------------------------------------------------------ C14
\* The provider items of the document whose pass calls sync_model on key k
\* and gets past the allow-list and the price gate.
PassesOn(k) ==
    {h \in DOMAIN data :
        /\ k \in Range(data[h].cfg.models)
        /\ k \in DOMAIN data[h].cfg.price
        /\ (models_filter = <<>>
              \/ FullName(data[h].provider, k) \in Range(models_filter))}
FirstPassOn(k) == CHOOSE h \in PassesOn(k) : \A g \in PassesOn(k) : h <= g

\* C14: when a run in which no call raised has ended, every Model row whose
\* apiString two providers of the document list has the providerId of the
\* provider that comes first in the document.
C14_FirstPassKeepsSharedKey ==
    (RunEnded /\ runs \notin faulty) =>
        \A k \in Keys :
            Cardinality(PassesOn(k)) >= 2 =>
                \A m \in Model :
                    m.apiString = k => m.providerId = pids[data[FirstPassOn(k)].provider]

\* ------------------------------------------------------------------ C15
\* The compared fields in which the desired record differs from row e,
\* capabilities being a set of tags.
Differing(e) ==
    {f \in ScalarFields : e[f] # StepRec[f]}
    \cup (IF Range(e.capabilities) # Range(StepRec.capabilities)
          THEN {"capabilities"} ELSE {})

\* C15: when sync_model finds a row and some compared field differs, it
\* issues one update and no other write, carrying exactly the differing
\* fields and updatedAt; the row keeps its id, its createdAt and every field
\* that does not differ, and takes the desired values when the update
\* succeeds.  When no field differs it issues no write and the table, the
\* row's updatedAt included, stays as it is.
C15_MinimalModelUpdate ==
    [][pc = "model" =>
          \A e \in StepFound :
              /\ Differing(e) = {} => (StepWrites = {} /\ Model' = Model)
              /\ Differing(e) # {} =>
                    /\ \E c \in StepWrites :
                          /\ StepWrites = {c}
                          /\ c.op = "update"
                          /\ c.key = StepKey
                          /\ c.fields = Differing(e) \cup {"updatedAt"}
                          /\ \A n \in Model' :
                                n.apiString = StepKey =>
                                    /\ n.id = e.id
                                    /\ n.createdAt = e.createdAt
                                    /\ \A f \in DOMAIN e \ c.fields : n[f] = e[f]
                                    /\ c.ok => \A f \in Differing(e) : n[f] = StepRec[f]
                                    /\ c.ok => n.updatedAt = clock
                                    /\ ~c.ok => n = e
                    /\ Model' \ {n \in Model' : n.apiString = StepKey}
                          = Model \ {e}]_vars

\* A run has ended in which sync_model updated the row of "gpt-x" in two
\* compared fields or more: the row has the id and the createdAt it had and
\* a new updatedAt.
C15_Witness ==
    /\ RunEnded
    /\ \E c \in Writes :
          /\ c.table = "Model" /\ c.op = "update" /\ c.key = "gpt-x" /\ c.ok
          /\ Cardinality(c.fields) >= 3
    /\ \E e \in Model0 : \E n \in Model :
          /\ e.apiString = "gpt-x"
          /\ n.id = e.id
          /\ n.createdAt = e.createdAt
          /\ n.updatedAt # e.updatedAt

\* ------------------------------------------------------------------ C16
\* What a step of upsert_provider is called on: the name, the desired
\* apiEndpoint and icon, the row its lookup returns.
StepName == data[i].provider
StepDesired == [apiEndpoint |-> Endpoint(StepName), icon |-> data[i].cfg.icon]
StepFoundProvider ==
    {e \in Provider :
        /\ e.name = StepName
        /\ \E c \in StepCalls : c.table = "Provider" /\ c.op = "select" /\ c.ok
        /\ \A p \in Provider : p.name = StepName => p = e}

\* The fields whose desired value is not empty and differs from that of
\* row e.
ToOverwrite(e) ==
    {f \in DOMAIN StepDesired : StepDesired[f] # "" /\ StepDesired[f] # e[f]}

\* C16: when upsert_provider finds the row of the name, it issues no write
\* when no desired value is non-empty and different from the stored one, and
\* otherwise one update carrying exactly those fields; a field whose desired
\* value is empty or equal keeps its stored value, the others take the
\* desired value when the update succeeds, and the id returned is the row's.
\* No step changes the id or the name of a Provider row.
C16_ProviderDiffUpdate ==
    [][/\ \A p \in Provider : \E n \in Provider' : n.id = p.id /\ n.name = p.name
       /\ pc = "provider" =>
             \A e \in StepFoundProvider :
                 /\ ToOverwrite(e) = {} => (StepWrites = {} /\ Provider' = Provider)
                 /\ ToOverwrite(e) # {} =>
                       \E c \in StepWrites :
                           /\ StepWrites = {c}
                           /\ c.op = "update"
                           /\ c.provider = StepName
                           /\ c.fields = ToOverwrite(e)
                           /\ \A n \in Provider' :
                                 n.id = e.id =>
                                     /\ \A f \in DOMAIN e \ c.fields : n[f] = e[f]
                                     /\ c.ok => \A f \in c.fields : n[f] = StepDesired[f]
                                     /\ ~c.ok => n = e
                 /\ pids'[StepName] = e.id
                 /\ Cardinality(Provider') = Cardinality(Provider)]_vars

\* A run has ended in which upsert_provider found the row of "legacy", whose
\* desired apiEndpoint is empty and whose desired icon is new: the update
\* carried the icon alone and the row kept its apiEndpoint.
C16_Witness ==
    /\ RunEnded
    /\ \E c \in Writes :
          /\ c.table = "Provider" /\ c.op = "update" /\ c.provider = "legacy" /\ c.ok
          /\ c.fields = {"icon"}
    /\ \E e \in Provider0 : \E n \in Provider :
          /\ e.name = "legacy"
          /\ n.id = e.id
          /\ n.icon = "icon-1" /\ e.icon # "icon-1"
          /\ n.apiEndpoint = e.apiEndpoint /\ e.apiEndpoint # ""

\* ------------------------------------------------------------------ C17
\* A call of the sweep step that raised: of the given kinds, for the given
\* provider name or row id.
SweepFailed(kinds, provider_name, row) ==
    \E c \in StepCalls :
        /\ c.table = "sweep" /\ c.op \in kinds /\ ~c.ok
        /\ c.provider = provider_name /\ c.row = row

\* Row m is one the sweep is to archive: it is not archived and either its
\* provider is the one persisted row of a name absent from the document, or
\* its providerId is the id given for a provider of the document that does
\* not list its apiString.  Its own calls are the Model fetch for that
\* provider and the update of the row.
EligibleUnfailed(m) ==
    /\ ~m.isArchived
    /\ ~SweepFailed({"providers"}, "", NullId)
    /\ ~SweepFailed({"archive1", "archive2"}, "", m.id)
    /\ \/ \E p \in Provider :
             /\ p.id = m.providerId
             /\ p.name \notin DocNames
             /\ \A q \in Provider : q.name = p.name => q = p
             /\ ~SweepFailed({"fetch1"}, p.name, NullId)
       \/ \E n \in DocNames :
             /\ m.providerId = ModelsByProvider[n].id
             /\ m.apiString \notin ModelsByProvider[n].models_set
             /\ ~SweepFailed({"fetch2"}, n, NullId)

\* C17: in a call of archive_removed_entities whose Provider fetch succeeds,
\* every row to archive whose own Model fetch and update do not raise ends
\* archived, with the time of the sweep as updatedAt and nothing else
\* changed, whichever other calls of the sweep raise; and a row that was
\* archived already is left as it was, updatedAt included.
C17_SweepFailureIsolation ==
    [][(sweeps = 0 /\ sweeps' = 1) =>
          \A m \in Model :
              /\ EligibleUnfailed(m) =>
                    [m EXCEPT !.isArchived = TRUE, !.updatedAt = clock] \in Model'
              /\ m.isArchived => m \in Model']_vars

\* The sweep has run, one of its Model fetches or archiving updates raised,
\* another update archived a row, and a row archived before the run is as it
\* was.
C17_Witness ==
    /\ sweeps = 1
    /\ \E c \in calls :
          c.table = "sweep" /\ c.op \in {"fetch1", "fetch2", "archive1", "archive2"} /\ ~c.ok
    /\ \E d \in calls :
          /\ d.table = "sweep" /\ d.op \in {"archive1", "archive2"} /\ d.ok
          /\ \E m \in Model : m.id = d.row /\ m.isArchived /\ m.updatedAt = clock
    /\ \E m \in Model0 : m.isArchived /\ m \in Model

\* ------------------------------------------------------------------ C18
\* The key has a depreciationDate that is not empty and does not parse as a
\* date.
Malformed(cfg, key) ==
    /\ key \in DOMAIN cfg.depreciationDate
    /\ cfg.depreciationDate[key] \notin DOMAIN IsoDay \cup {""}

\* C18: a step of sync_model on a priced key whose depreciationDate does not
\* parse looks the row up, inserts a row that is not archived when it finds
\* none, un-archives by its update a row it finds archived, writes no row of
\* the key with isArchived true, leaves a row of the key that is not
\* archived when none of its calls raises, and hands over to the next model
\* key or the next provider.
C18_MalformedDateIsNoDate ==
    [][(/\ pc = "model"
        /\ Malformed(StepCfg, StepKey)
        /\ StepKey \in DOMAIN StepCfg.price
        /\ (models_filter = <<>>
              \/ FullName(StepName, StepKey) \in Range(models_filter))) =>
          /\ \E c \in StepCalls : c.table = "Model" /\ c.op = "select" /\ c.key = StepKey
          /\ StepFound = {} => \E c \in StepWrites : c.op = "insert" /\ c.key = StepKey
          /\ \A e \in StepFound :
                e.isArchived =>
                    \E c \in StepWrites : c.op = "update" /\ "isArchived" \in c.fields
          /\ \A m \in Model' \ Model : m.apiString = StepKey => ~m.isArchived
          /\ (\A c \in StepCalls : c.ok) =>
                \E m \in Model' : m.apiString = StepKey /\ ~m.isArchived
          /\ <<StepName, StepKey>> \in synced'
          /\ IF j < Len(StepCfg.models)
             THEN pc' = "model" /\ i' = i /\ j' = j + 1
             ELSE pc' \in {"provider", "done"}]_vars

\* A run has ended in which "gpt-x", whose depreciationDate does not parse,
\* had an archived row that sync_model un-archived, and the following key
\* was looked up.
C18_Witness ==
    /\ RunEnded
    /\ Malformed(data[1].cfg, "gpt-x")
    /\ \E e \in Model0 : \E n \in Model :
          e.apiString = "gpt-x" /\ e.isArchived /\ n.id = e.id /\ ~n.isArchived
    /\ \E c \in calls : c.table = "Model" /\ c.op = "select" /\ c.key = "m-2024-05-13"

\* ------------------------------------------------------------------ C19
\* C19: the store never holds two Model rows of one apiString, whatever
\* calls raised in the runs so far.
C19_OneModelRowPerKey ==
    \A m \in Model : \A n \in Model : m.apiString = n.apiString => m = n

\* ------------------------------------------------------------------ C20
\* C20: every Model row a step inserts or changes has the id of a Provider
\* row of the store as providerId; sync_model issues its inserts and updates
\* with the id of a Provider row of the store, never with None; and every
\* Provider row and every Model row of the store is still in it, under its
\* id, after any step.
C20_ReferentialIntegrity ==
    [][/\ \A m \in Model' \ Model :
             /\ m.providerId # NullId
             /\ \E p \in Provider' : p.id = m.providerId
       /\ pc = "model" =>
             \A c \in StepWrites :
                 /\ pid # NullId
                 /\ \E p \in Provider : p.id = pid
                 /\ c.ok => \E m \in Model' : m.apiString = c.key /\ m.providerId = pid
       /\ \A p \in Provider : \E n \in Provider' : n.id = p.id
       /\ \A m \in Model : \E n \in Model' : n.id = m.id]_vars

\* A run has ended in which sync_model inserted a row and gave a row of the
\* store another providerId, each the id of a Provider row, and every row
\* the store had is in it.
C20_Witness ==
    /\ RunEnded
    /\ \E m \in Model :
          /\ \A e \in Model0 : e.id # m.id
          /\ \E p \in Provider : p.id = m.providerId
    /\ \E e \in Model0 : \E n \in Model :
          /\ n.id = e.id
          /\ n.providerId # e.providerId
          /\ \E p \in Provider : p.id = n.providerId
    /\ \A e \in Model0 : \E n \in Model : n.id = e.id
    /\ \A e \in Provider0 : \E n \in Provider : n.id = e.id

====
